---- MODULE Spec2Model ----
(***************************************************************************)
(* State-machine model of the mp3tags_r tag engine: one file P, held as a  *)
(* sequence of bytes, a TagWriter with its writer strategies, and a        *)
(* TagReader that may run at any moment.  A TagReader keeps nothing       *)
(* between calls and changes nothing, so what a reader built at any moment *)
(* returns is the operator TagReaderGet applied to the file of that moment.*)
(* Bytes are naturals 0..255, strings are sequences of bytes.              *)
(* The byte alphabet used by the modelled                                  *)
(* inputs is 0..191 (ASCII plus UTF-8 continuation bytes), on which a byte *)
(* sequence is valid UTF-8 exactly when all of its bytes are below 128.    *)
(***************************************************************************)
EXTENDS Integers, Sequences, FiniteSets, TLC

\* ------------------------------------------------------------------ bounds
\* number of TagWriter::set_meta_entry calls in one behaviour
MaxWrites == 2
\* length of the audio body of the modelled input files
AudioLen == 130
\* how many values next to each power of two the synchsafe codec is run on
SyncSpread == 6

\* --------------------------------------------------------- program constants
HEADER_SIZE == 10
FRAME_HEADER_SIZE == 10
FRAME_ID_SIZE == 4
ID3V2_PADDING_SIZE == 2048
ID3V1_TAG_SIZE == 128
TITLE_SIZE == 30
ARTIST_SIZE == 30
ALBUM_SIZE == 30
YEAR_SIZE == 4
COMMENT_SIZE == 30
GENRE_SIZE == 1
IDENTIFIER_SIZE == 3
TITLE_OFFSET == 3
ARTIST_OFFSET == 33
ALBUM_OFFSET == 63
YEAR_OFFSET == 93
COMMENT_OFFSET == 97
GENRE_OFFSET == 127
APE_TAG_FOOTER_SIZE == 32
APE_TAG_HEADER_SIZE == 32
APE_TAG_VERSION_2_0 == 2000
\* a u32 flag word is held as its four little-endian bytes; FlagWord(k) is 1 << k
FlagWord(k) == [i \in 1..4 |-> IF i = (k \div 8) + 1 THEN 2 ^ (k % 8) ELSE 0]
APE_TAG_FLAG_HAS_HEADER == FlagWord(31)
APE_TAG_FLAG_NO_FOOTER == FlagWord(30)
APE_TAG_FLAG_IS_HEADER == FlagWord(29)
APE_ITEM_FLAG_BINARY == FlagWord(1)
APE_ITEM_FLAG_UTF8 == <<0, 0, 0, 0>>
MAX_KEY_LENGTH == 255
MAX_VALUE_SIZE == 16777216

ID3V2_IDENTIFIER == <<73, 68, 51>>
ID3V1_IDENTIFIER == <<84, 65, 71>>
APE_TAG_IDENTIFIER == <<65, 80, 69, 84, 65, 71, 69, 88>>

\* ------------------------------------------------------------ byte helpers
Take(s, n) == SubSeq(s, 1, IF n < Len(s) THEN n ELSE Len(s))
Drop(s, n) == SubSeq(s, n + 1, Len(s))
Zeros(n) == [i \in 1..n |-> 0]
Min(a, b) == IF a < b THEN a ELSE b
Max(a, b) == IF a > b THEN a ELSE b

\* bit k of n is set (n a natural)
BitSet(n, k) == (n \div (2 ^ k)) % 2 = 1

\* bit k of a flag word; the union (|) of two flag words
FlagBit(flags, k) == BitSet(flags[(k \div 8) + 1], k % 8)
FlagOr(a, b) ==
  [i \in 1..4 |-> LET bit(x, k) == IF BitSet(x, k) THEN 1 ELSE 0
                       or(k) == IF bit(a[i], k) + bit(b[i], k) > 0 THEN 2 ^ k ELSE 0
                   IN or(0) + or(1) + or(2) + or(3) + or(4) + or(5) + or(6) + or(7)]

\* Decoded u32 values of 2^30 and more are all held as Huge: they are only
\* ever compared with file lengths and with MAX_VALUE_SIZE, which are smaller.
Huge == 2 ^ 30
\* u32::to_be_bytes / u32::from_be_bytes
U32ToBe(n) == << (n \div 16777216) % 256, (n \div 65536) % 256, (n \div 256) % 256, n % 256 >>
U32FromBe(b) ==
  IF b[1] >= 64 THEN Huge ELSE b[1] * 16777216 + b[2] * 65536 + b[3] * 256 + b[4]
\* u32::to_le_bytes / u32::from_le_bytes
U32ToLe(n) == << n % 256, (n \div 256) % 256, (n \div 65536) % 256, (n \div 16777216) % 256 >>
U32FromLe(b) ==
  IF b[4] >= 64 THEN Huge ELSE b[1] + b[2] * 256 + b[3] * 65536 + b[4] * 16777216

\* an encoder that cuts the value into 8-bit groups (plain big-endian bytes)
int_to_bytes_unsafe(val) == U32ToBe(val)
\* id3::v2::util
int_to_synchsafe(val) ==
  << (val \div 2097152) % 128, (val \div 16384) % 128, (val \div 128) % 128, val % 128 >>
synchsafe_to_int(bytes) ==
  (bytes[1] % 128) * 2097152 + (bytes[2] % 128) * 16384 + (bytes[3] % 128) * 128 + (bytes[4] % 128)

\* String::from_utf8 succeeds (on the modelled alphabet 0..191)
IsUtf8(bytes) == \A i \in 1..Len(bytes) : bytes[i] < 128
\* String::from_utf8_lossy: every invalid byte becomes U+FFFD (65533)
Utf8Lossy(bytes) == [i \in 1..Len(bytes) |-> IF bytes[i] < 128 THEN bytes[i] ELSE 65533]
\* char::is_whitespace on the code points that can occur
IsWhitespace(c) == c \in {9, 10, 11, 12, 13, 32, 133, 160}
\* str::trim_end: strips trailing whitespace (NUL is not whitespace)
RECURSIVE TrimEnd(_)
TrimEnd(s) ==
  IF Len(s) > 0 /\ IsWhitespace(s[Len(s)]) THEN TrimEnd(SubSeq(s, 1, Len(s) - 1)) ELSE s
\* u8::to_ascii_uppercase, str::eq_ignore_ascii_case
ToAsciiUpper(c) == IF c >= 97 /\ c <= 122 THEN c - 32 ELSE c
EqIgnoreAsciiCase(a, b) ==
  Len(a) = Len(b) /\ \A i \in 1..Len(a) : ToAsciiUpper(a[i]) = ToAsciiUpper(b[i])

\* ---------------------------------------------------------------- MetaEntry
StandardEntryNames ==
  {"Title", "Artist", "Album", "Year", "Genre", "Comment", "Composer", "Track", "Date",
   "TextWriter", "AudioEncryption", "Language", "Time", "OriginalFilename", "FileType",
   "BandOrchestra"}
\* a MetaEntry value: a standard variant, or Custom(key)
Std(name) == [variant |-> name, key |-> <<>>]
Custom(key) == [variant |-> "Custom", key |-> key]

\* v3_v4::FRAME_MAP: (entry name, frame id bytes)
FRAME_MAP_v3_v4 ==
  {
    [entry |-> "Title", id |-> <<84, 73, 84, 50>>],
    [entry |-> "Artist", id |-> <<84, 80, 69, 49>>],
    [entry |-> "Album", id |-> <<84, 65, 76, 66>>],
    [entry |-> "Year", id |-> <<84, 89, 69, 82>>],
    [entry |-> "Genre", id |-> <<84, 67, 79, 78>>],
    [entry |-> "Comment", id |-> <<67, 79, 77, 77>>],
    [entry |-> "Composer", id |-> <<84, 67, 79, 77>>],
    [entry |-> "Track", id |-> <<84, 82, 67, 75>>],
    [entry |-> "Date", id |-> <<84, 68, 65, 84>>],
    [entry |-> "TextWriter", id |-> <<84, 69, 88, 84>>],
    [entry |-> "AudioEncryption", id |-> <<65, 69, 78, 67>>],
    [entry |-> "Language", id |-> <<84, 76, 65, 78>>],
    [entry |-> "Time", id |-> <<84, 73, 77, 69>>],
    [entry |-> "OriginalFilename", id |-> <<84, 79, 70, 78>>],
    [entry |-> "FileType", id |-> <<84, 70, 76, 84>>],
    [entry |-> "BandOrchestra", id |-> <<84, 80, 69, 50>>],
    [entry |-> "AttachedPicture", id |-> <<65, 80, 73, 67>>],
    [entry |-> "AudioSeekPointIndex", id |-> <<65, 83, 80, 73>>],
    [entry |-> "CommercialFrame", id |-> <<67, 79, 77, 82>>],
    [entry |-> "EncryptionMethodRegistration", id |-> <<69, 78, 67, 82>>],
    [entry |-> "Equalisation2", id |-> <<69, 81, 85, 50>>],
    [entry |-> "EventTimingCodes", id |-> <<69, 84, 67, 79>>],
    [entry |-> "GeneralEncapsulatedObject", id |-> <<71, 69, 79, 66>>],
    [entry |-> "GroupIdentificationRegistration", id |-> <<71, 82, 73, 68>>],
    [entry |-> "LinkedInformation", id |-> <<76, 73, 78, 75>>],
    [entry |-> "MusicCDIdentifier", id |-> <<77, 67, 68, 73>>],
    [entry |-> "MPEGLocationLookupTable", id |-> <<77, 76, 76, 84>>],
    [entry |-> "OwnershipFrame", id |-> <<79, 87, 78, 69>>],
    [entry |-> "PrivateFrame", id |-> <<80, 82, 73, 86>>],
    [entry |-> "PlayCounter", id |-> <<80, 67, 78, 84>>],
    [entry |-> "Popularimeter", id |-> <<80, 79, 80, 77>>],
    [entry |-> "PositionSynchronisationFrame", id |-> <<80, 79, 83, 83>>],
    [entry |-> "RecommendedBufferSize", id |-> <<82, 66, 85, 70>>],
    [entry |-> "RelativeVolumeAdjustment2", id |-> <<82, 86, 65, 50>>],
    [entry |-> "Reverb", id |-> <<82, 86, 82, 66>>],
    [entry |-> "SeekFrame", id |-> <<83, 69, 69, 75>>],
    [entry |-> "SignatureFrame", id |-> <<83, 73, 71, 78>>],
    [entry |-> "SynchronisedLyricText", id |-> <<83, 89, 76, 84>>],
    [entry |-> "SynchronisedTempoCodes", id |-> <<83, 89, 84, 67>>],
    [entry |-> "BeatsPerMinute", id |-> <<84, 66, 80, 77>>],
    [entry |-> "CopyrightMessage", id |-> <<84, 67, 79, 80>>],
    [entry |-> "EncodingTime", id |-> <<84, 68, 69, 78>>],
    [entry |-> "PlaylistDelay", id |-> <<84, 68, 76, 89>>],
    [entry |-> "OriginalReleaseTime", id |-> <<84, 68, 79, 82>>],
    [entry |-> "RecordingTime", id |-> <<84, 68, 82, 67>>],
    [entry |-> "ReleaseTime", id |-> <<84, 68, 82, 76>>],
    [entry |-> "TaggingTime", id |-> <<84, 68, 84, 71>>],
    [entry |-> "EncodedBy", id |-> <<84, 69, 78, 67>>],
    [entry |-> "InvolvedPeopleList", id |-> <<84, 73, 80, 76>>],
    [entry |-> "ContentGroupDescription", id |-> <<84, 73, 84, 49>>],
    [entry |-> "SubtitleDescriptionRefinement", id |-> <<84, 73, 84, 51>>],
    [entry |-> "InitialKey", id |-> <<84, 75, 69, 89>>],
    [entry |-> "Length", id |-> <<84, 76, 69, 78>>],
    [entry |-> "MusicianCreditsList", id |-> <<84, 77, 67, 76>>],
    [entry |-> "MediaType", id |-> <<84, 77, 69, 68>>],
    [entry |-> "Mood", id |-> <<84, 77, 79, 79>>],
    [entry |-> "OriginalAlbumMovieShowTitle", id |-> <<84, 79, 65, 76>>],
    [entry |-> "OriginalLyricistTextWriter", id |-> <<84, 79, 76, 89>>],
    [entry |-> "OriginalArtistPerformer", id |-> <<84, 79, 80, 69>>],
    [entry |-> "FileOwnerLicensee", id |-> <<84, 79, 87, 78>>],
    [entry |-> "ConductorPerformerRefinement", id |-> <<84, 80, 69, 51>>],
    [entry |-> "InterpretedRemixedModifiedBy", id |-> <<84, 80, 69, 52>>],
    [entry |-> "PartOfSet", id |-> <<84, 80, 79, 83>>],
    [entry |-> "ProducedNotice", id |-> <<84, 80, 82, 79>>],
    [entry |-> "Publisher", id |-> <<84, 80, 85, 66>>],
    [entry |-> "InternetRadioStationName", id |-> <<84, 82, 83, 78>>],
    [entry |-> "InternetRadioStationOwner", id |-> <<84, 82, 83, 79>>],
    [entry |-> "AlbumSortOrder", id |-> <<84, 83, 79, 65>>],
    [entry |-> "PerformerSortOrder", id |-> <<84, 83, 79, 80>>],
    [entry |-> "TitleSortOrder", id |-> <<84, 83, 79, 84>>],
    [entry |-> "ISRC", id |-> <<84, 83, 82, 67>>],
    [entry |-> "SoftwareHardwareSettings", id |-> <<84, 83, 83, 69>>],
    [entry |-> "SetSubtitle", id |-> <<84, 83, 83, 84>>],
    [entry |-> "UserDefinedTextInformation", id |-> <<84, 88, 88, 88>>],
    [entry |-> "UniqueFileIdentifier", id |-> <<85, 70, 73, 68>>],
    [entry |-> "TermsOfUse", id |-> <<85, 83, 69, 82>>],
    [entry |-> "UnsynchronisedLyricTextTranscription", id |-> <<85, 83, 76, 84>>],
    [entry |-> "CommercialInformation", id |-> <<87, 67, 79, 77>>],
    [entry |-> "CopyrightLegalInformation", id |-> <<87, 67, 79, 80>>],
    [entry |-> "OfficialAudioFileWebpage", id |-> <<87, 79, 65, 70>>],
    [entry |-> "OfficialArtistPerformerWebpage", id |-> <<87, 79, 65, 82>>],
    [entry |-> "OfficialAudioSourceWebpage", id |-> <<87, 79, 65, 83>>],
    [entry |-> "OfficialInternetRadioStationHomepage", id |-> <<87, 79, 82, 83>>],
    [entry |-> "Payment", id |-> <<87, 80, 65, 89>>],
    [entry |-> "PublishersOfficialWebpage", id |-> <<87, 80, 85, 66>>],
    [entry |-> "UserDefinedURLLink", id |-> <<87, 88, 88, 88>>]
  }

\* v2_0::FRAME_MAP: (entry name, frame id bytes)
FRAME_MAP_v2_0 ==
  {
    [entry |-> "Title", id |-> <<84, 73, 84>>],
    [entry |-> "Artist", id |-> <<84, 80, 49>>],
    [entry |-> "Album", id |-> <<84, 65, 76>>],
    [entry |-> "Date", id |-> <<84, 68, 65>>],
    [entry |-> "Genre", id |-> <<84, 67, 79>>],
    [entry |-> "TextWriter", id |-> <<84, 88, 84>>],
    [entry |-> "AudioEncryption", id |-> <<67, 82, 65>>],
    [entry |-> "Language", id |-> <<84, 76, 65>>],
    [entry |-> "Time", id |-> <<84, 73, 77>>],
    [entry |-> "Composer", id |-> <<84, 67, 77>>],
    [entry |-> "FileType", id |-> <<84, 70, 84>>],
    [entry |-> "BandOrchestra", id |-> <<84, 80, 50>>],
    [entry |-> "RecommendedBufferSize", id |-> <<66, 85, 70>>],
    [entry |-> "PlayCounter", id |-> <<67, 78, 84>>],
    [entry |-> "Comments", id |-> <<67, 79, 77>>],
    [entry |-> "EncryptedMetaFrame", id |-> <<67, 82, 77>>],
    [entry |-> "EventTimingCodes", id |-> <<69, 84, 67>>],
    [entry |-> "Equalization", id |-> <<69, 81, 85>>],
    [entry |-> "GeneralEncapsulatedObject", id |-> <<71, 69, 79>>],
    [entry |-> "InvolvedPeopleList", id |-> <<73, 80, 76>>],
    [entry |-> "LinkedInformation", id |-> <<76, 78, 75>>],
    [entry |-> "MusicCDIdentifier", id |-> <<77, 67, 73>>],
    [entry |-> "MPEGLocationLookupTable", id |-> <<77, 76, 76>>],
    [entry |-> "AttachedPicture", id |-> <<80, 73, 67>>],
    [entry |-> "Popularimeter", id |-> <<80, 79, 80>>],
    [entry |-> "Reverb", id |-> <<82, 69, 86>>],
    [entry |-> "RelativeVolumeAdjustment", id |-> <<82, 86, 65>>],
    [entry |-> "SynchronizedLyricText", id |-> <<83, 76, 84>>],
    [entry |-> "SyncedTempoCodes", id |-> <<83, 84, 67>>],
    [entry |-> "BeatsPerMinute", id |-> <<84, 66, 80>>],
    [entry |-> "CopyrightMessage", id |-> <<84, 67, 82>>],
    [entry |-> "PlaylistDelay", id |-> <<84, 68, 89>>],
    [entry |-> "EncodedBy", id |-> <<84, 69, 78>>],
    [entry |-> "InitialKey", id |-> <<84, 75, 69>>],
    [entry |-> "Length", id |-> <<84, 76, 69>>],
    [entry |-> "MediaType", id |-> <<84, 77, 84>>],
    [entry |-> "OriginalArtistPerformer", id |-> <<84, 79, 65>>],
    [entry |-> "OriginalFilename", id |-> <<84, 79, 70>>],
    [entry |-> "OriginalLyricistTextWriter", id |-> <<84, 79, 76>>],
    [entry |-> "OriginalReleaseYear", id |-> <<84, 79, 82>>],
    [entry |-> "OriginalAlbumMovieShowTitle", id |-> <<84, 79, 84>>],
    [entry |-> "ConductorPerformerRefinement", id |-> <<84, 80, 51>>],
    [entry |-> "InterpretedRemixedModifiedBy", id |-> <<84, 80, 52>>],
    [entry |-> "PartOfSet", id |-> <<84, 80, 65>>],
    [entry |-> "Publisher", id |-> <<84, 80, 66>>],
    [entry |-> "ISRC", id |-> <<84, 82, 67>>],
    [entry |-> "RecordingDates", id |-> <<84, 82, 68>>],
    [entry |-> "TrackNumberPositionInSet", id |-> <<84, 82, 75>>],
    [entry |-> "Size", id |-> <<84, 83, 73>>],
    [entry |-> "SoftwareHardwareSettings", id |-> <<84, 83, 83>>],
    [entry |-> "ContentGroupDescription", id |-> <<84, 84, 49>>],
    [entry |-> "TitleSongnameContentDescription", id |-> <<84, 84, 50>>],
    [entry |-> "SubtitleDescriptionRefinement", id |-> <<84, 84, 51>>],
    [entry |-> "UserDefinedTextInformation", id |-> <<84, 88, 88>>],
    [entry |-> "Year", id |-> <<84, 89, 69>>],
    [entry |-> "UniqueFileIdentifier", id |-> <<85, 70, 73>>],
    [entry |-> "UnsynchronizedLyricTextTranscription", id |-> <<85, 76, 84>>],
    [entry |-> "OfficialAudioFileWebpage", id |-> <<87, 65, 70>>],
    [entry |-> "OfficialArtistPerformerWebpage", id |-> <<87, 65, 82>>],
    [entry |-> "OfficialAudioSourceWebpage", id |-> <<87, 65, 83>>],
    [entry |-> "CommercialInformation", id |-> <<87, 67, 77>>],
    [entry |-> "CopyrightLegalInformation", id |-> <<87, 67, 80>>],
    [entry |-> "PublishersOfficialWebpage", id |-> <<87, 80, 66>>],
    [entry |-> "UserDefinedURLLink", id |-> <<87, 88, 88>>]
  }

\* v3_v4::get_frame_id / v2_0::get_frame_id: None is the empty sequence
NoneId == <<>>
FrameIdIn(map, entry) ==
  IF entry.variant = "Custom" THEN NoneId
  ELSE IF \E m \in map : m.entry = entry.variant
       THEN (CHOOSE m \in map : m.entry = entry.variant).id
       ELSE NoneId
\* v3_v4::is_supported_frame / v2_0::is_supported_frame
is_supported_frame_in(map, frame_id) == \E m \in map : m.id = frame_id

\* a conversion that forgets the version byte
VersionAlwaysV3(v) == 3
\* Version::from(u8) and u8::from(Version): kept as the u8 of the Version
VersionFromU8(v) == IF v = 2 THEN 2 ELSE IF v = 4 THEN 4 ELSE 3

get_frame_id_for_version(entry, version) ==
  IF version = 2 THEN FrameIdIn(FRAME_MAP_v2_0, entry) ELSE FrameIdIn(FRAME_MAP_v3_v4, entry)
is_supported_frame(frame_id, version) ==
  IF version = 2 THEN is_supported_frame_in(FRAME_MAP_v2_0, frame_id)
  ELSE is_supported_frame_in(FRAME_MAP_v3_v4, frame_id)

\* ape: meta_entry_to_ape_key
ApeKeyTable ==
  {
    [variant |-> "Title", key |-> <<84, 73, 84, 76, 69>>],
    [variant |-> "Artist", key |-> <<65, 82, 84, 73, 83, 84>>],
    [variant |-> "Album", key |-> <<65, 76, 66, 85, 77>>],
    [variant |-> "Year", key |-> <<89, 69, 65, 82>>],
    [variant |-> "Genre", key |-> <<71, 69, 78, 82, 69>>],
    [variant |-> "Comment", key |-> <<67, 79, 77, 77, 69, 78, 84>>],
    [variant |-> "Composer", key |-> <<67, 79, 77, 80, 79, 83, 69, 82>>],
    [variant |-> "Track", key |-> <<84, 82, 65, 67, 75>>],
    [variant |-> "Date", key |-> <<68, 65, 84, 69>>],
    [variant |-> "TextWriter", key |-> <<84, 69, 88, 84, 87, 82, 73, 84, 69, 82>>],
    [variant |-> "AudioEncryption", key |-> <<65, 85, 68, 73, 79, 69, 78, 67, 82, 89, 80, 84, 73, 79, 78>>],
    [variant |-> "Language", key |-> <<76, 65, 78, 71, 85, 65, 71, 69>>],
    [variant |-> "Time", key |-> <<84, 73, 77, 69>>],
    [variant |-> "OriginalFilename", key |-> <<79, 82, 73, 71, 73, 78, 65, 76, 70, 73, 76, 69, 78, 65, 77, 69>>],
    [variant |-> "FileType", key |-> <<70, 73, 76, 69, 84, 89, 80, 69>>],
    [variant |-> "BandOrchestra", key |-> <<66, 65, 78, 68, 79, 82, 67, 72, 69, 83, 84, 82, 65>>]
  }
meta_entry_to_ape_key(entry) ==
  IF entry.variant = "Custom" THEN entry.key
  ELSE (CHOOSE m \in ApeKeyTable : m.variant = entry.variant).key


\* ------------------------------------------------------------- file access
\* write_all of `bytes` at 0-based position `pos` of a file opened without
\* truncation: overwrites in place and extends the file when it runs past EOF
WriteAt(f, pos, bytes) ==
  Take(f, pos) \o bytes \o Drop(f, pos + Len(bytes))

\* =================================================================== ID3v2
\* id3::v2::util::has_id3v2_tag
has_id3v2_tag(f) == Len(f) >= 10 /\ SubSeq(f, 1, 3) = ID3V2_IDENTIFIER

\* Header::parse on the first 10 bytes; Header::is_valid
HeaderParse(buffer) ==
  [version |-> buffer[4], revision |-> buffer[5], flags |-> buffer[6],
   size |-> synchsafe_to_int(SubSeq(buffer, 7, 10))]
HeaderIsValid(h) == h.version <= 4 /\ h.size > 0
\* Header::to_bytes
HeaderToBytes(h) ==
  ID3V2_IDENTIFIER \o <<h.version, h.revision, h.flags>> \o int_to_synchsafe(h.size)

\* Frame::parse (the caller guarantees 10 + size bytes are available)
FrameParse(data) ==
  LET size == U32FromBe(SubSeq(data, 5, 8))
      frame_data == SubSeq(data, 11, 10 + size)
  IN [id |-> Utf8Lossy(SubSeq(data, 1, 4)),
      content |-> IF frame_data = <<>> THEN <<>> ELSE Utf8Lossy(Tail(frame_data)),
      data |-> frame_data]
\* Frame::new
FrameNew(id, content) == [id |-> id, content |-> content, data |-> <<0>> \o content]
\* Frame::to_bytes; copy_from_slice panics unless the id is 4 bytes long
FrameToBytesPanics(frame) == Len(frame.id) # FRAME_ID_SIZE
FrameToBytes(frame) == frame.id \o U32ToBe(Len(frame.data)) \o <<0, 0>> \o frame.data
FrameTotalSize(frame) == 10 + Len(frame.data)

\* TagParser::collect_frame: DefaultTagParser pushes, ExistingTagParser inserts
CollectFrame(frames, frame, existing) ==
  IF frame.id \in DOMAIN frames /\ ~existing
  THEN [frames EXCEPT ![frame.id] = Append(@, frame)]
  ELSE [i \in DOMAIN frames \cup {frame.id} |-> IF i = frame.id THEN <<frame>> ELSE frames[i]]

NoFrames == [i \in {} |-> <<>>]

\* TagParser::parse_frames with parse_single_frame inlined; `offset` is 0-based,
\* `existing` selects ExistingTagParser (no empty-id check, insert) over
\* DefaultTagParser
RECURSIVE parse_frames(_, _, _, _, _)
parse_frames(tag_buf, offset, version, existing, frames) ==
  IF offset >= Len(tag_buf) THEN frames
  ELSE IF offset + FRAME_HEADER_SIZE > Len(tag_buf) THEN frames
  ELSE LET frame_size == U32FromBe(SubSeq(tag_buf, offset + 5, offset + 8)) IN
    IF offset + FRAME_HEADER_SIZE + frame_size > Len(tag_buf) THEN frames
    ELSE IF ~existing /\ SubSeq(tag_buf, offset + 1, offset + FRAME_ID_SIZE) = Zeros(FRAME_ID_SIZE)
    THEN frames
    ELSE LET frame == FrameParse(Drop(tag_buf, offset)) IN
      IF frame.data = <<>> THEN frames
      ELSE IF ~is_supported_frame(frame.id, VersionFromU8(version)) THEN frames
      ELSE parse_frames(tag_buf, offset + FrameTotalSize(frame), version, existing,
                        CollectFrame(frames, frame, existing))

\* TagParser::parse_tag: [err |-> "" on success]
parse_tag(f, existing) ==
  IF Len(f) < HEADER_SIZE THEN [err |-> "Io", version |-> 3, flags |-> 0, frames |-> NoFrames]
  ELSE LET header == HeaderParse(Take(f, HEADER_SIZE)) IN
    IF SubSeq(f, 1, 3) # ID3V2_IDENTIFIER \/ ~HeaderIsValid(header)
    THEN [err |-> "InvalidHeader", version |-> 3, flags |-> 0, frames |-> NoFrames]
    ELSE IF Len(f) < HEADER_SIZE + header.size
    THEN [err |-> "Io", version |-> 3, flags |-> 0, frames |-> NoFrames]
    ELSE [err |-> "", version |-> VersionFromU8(header.version), flags |-> header.flags,
          frames |-> parse_frames(SubSeq(f, HEADER_SIZE + 1, HEADER_SIZE + header.size), 0,
                                  header.version, existing, NoFrames)]

\* id3::v2::tag::read_tag and TagWriter::read_existing_tag
read_tag(f) == parse_tag(f, FALSE)
read_existing_tag(f) == parse_tag(f, TRUE)

\* id3::v2::tag::TagReader after TagReaderStrategy::init(path): the cached tag,
\* then get_meta_entry on it.  Results are [ok, value, err].
RdOk(v) == [ok |-> TRUE, value |-> v, err |-> ""]
RdErr(e) == [ok |-> FALSE, value |-> <<>>, err |-> e]
V2ReaderInitGet(f, entry) ==
  IF ~has_id3v2_tag(f) THEN RdErr("TagNotFound")
  ELSE LET tag == read_tag(f) IN
    IF tag.err # "" THEN RdErr("TagNotFound")
    ELSE LET id == get_frame_id_for_version(entry, tag.version) IN
      IF id # NoneId /\ id \in DOMAIN tag.frames THEN RdOk(tag.frames[id][1].content)
      ELSE RdErr("EntryNotFound")

\* the orders in which HashMap::values() can yield the frame lists
Orders(ids) ==
  {o \in [1..Cardinality(ids) -> ids] : \A i, j \in 1..Cardinality(ids) : i # j => o[i] # o[j]}
RECURSIVE ConcatFrameList(_)
ConcatFrameList(fs) ==
  IF fs = <<>> THEN <<>> ELSE FrameToBytes(Head(fs)) \o ConcatFrameList(Tail(fs))
RECURSIVE ConcatFrames(_, _)
ConcatFrames(frames, order) ==
  IF order = <<>> THEN <<>>
  ELSE ConcatFrameList(frames[Head(order)]) \o ConcatFrames(frames, Tail(order))

\* id3::v2::tag::TagWriter::set_meta_entry up to the call of write_tag:
\* the tag to write, or the error it returns before touching the file
V2Prepare(f, entry, value) ==
  LET has == has_id3v2_tag(f)
      existing == read_existing_tag(f)
      version == IF has THEN existing.version ELSE 3
      frame_id == get_frame_id_for_version(entry, version)
  IN IF has /\ existing.err # "" THEN [err |-> existing.err, version |-> 3, flags |-> 0, frames |-> NoFrames]
     ELSE IF frame_id = NoneId THEN [err |-> "Other", version |-> 3, flags |-> 0, frames |-> NoFrames]
     ELSE [err |-> "", version |-> version,
           flags |-> IF has THEN existing.flags ELSE 0,
           frames |-> CollectFrame(IF has THEN existing.frames ELSE NoFrames,
                                   FrameNew(frame_id, value), TRUE)]
\* write_tag: a frame whose id is not 4 bytes makes Frame::to_bytes panic
V2WritePanics(tag) == \E id \in DOMAIN tag.frames : \E i \in 1..Len(tag.frames[id]) : FrameToBytesPanics(tag.frames[id][i])
\* write_tag: the header bytes and the frame data it writes for one HashMap order
V2FrameData(tag, order) == ConcatFrames(tag.frames, order)
V2HeaderBytes(tag, frame_data) ==
  HeaderToBytes([version |-> tag.version, revision |-> 0, flags |-> tag.flags,
                 size |-> Len(frame_data)])


\* =================================================================== ID3v1
\* id3::v1::tag::has_id3v1_tag: the seek to End(-128) fails on a shorter file
\* and the callers turn that error into `false`
has_id3v1_tag(f) ==
  Len(f) >= ID3V1_TAG_SIZE /\ SubSeq(f, Len(f) - ID3V1_TAG_SIZE + 1, Len(f) - ID3V1_TAG_SIZE + 3) = ID3V1_IDENTIFIER

\* Tag::new (Default): all fields zero
V1TagNew ==
  [title |-> Zeros(TITLE_SIZE), artist |-> Zeros(ARTIST_SIZE), album |-> Zeros(ALBUM_SIZE),
   year |-> Zeros(YEAR_SIZE), comment |-> Zeros(COMMENT_SIZE), genre |-> Zeros(GENRE_SIZE)]
\* the 128 bytes Tag::write_to_file emits
V1TagBytes(tag) ==
  ID3V1_IDENTIFIER \o tag.title \o tag.artist \o tag.album \o tag.year \o tag.comment \o tag.genre
\* Tag::read_from_file on a file that holds a record
V1ReadFromFile(f) ==
  LET d == SubSeq(f, Len(f) - ID3V1_TAG_SIZE + 1, Len(f)) IN
  [title |-> SubSeq(d, TITLE_OFFSET + 1, TITLE_OFFSET + TITLE_SIZE),
   artist |-> SubSeq(d, ARTIST_OFFSET + 1, ARTIST_OFFSET + ARTIST_SIZE),
   album |-> SubSeq(d, ALBUM_OFFSET + 1, ALBUM_OFFSET + ALBUM_SIZE),
   year |-> SubSeq(d, YEAR_OFFSET + 1, YEAR_OFFSET + YEAR_SIZE),
   comment |-> SubSeq(d, COMMENT_OFFSET + 1, COMMENT_OFFSET + COMMENT_SIZE),
   genre |-> SubSeq(d, GENRE_OFFSET + 1, GENRE_OFFSET + GENRE_SIZE)]
\* id3::v1::tag::TagWriter::init
V1WriterInit(f) == IF has_id3v1_tag(f) THEN V1ReadFromFile(f) ELSE V1TagNew

\* the field of the record a MetaEntry is stored in ("" when unsupported)
V1Field(entry) ==
  CASE entry.variant = "Title" -> "title"
    [] entry.variant = "Artist" -> "artist"
    [] entry.variant = "Album" -> "album"
    [] entry.variant = "Year" -> "year"
    [] entry.variant = "Comment" -> "comment"
    [] OTHER -> ""
\* id3::v1::tag::TagWriter::set_meta_entry: slice[..min(len, width)].copy_from_slice(value)
\* panics when the value is longer than the field, and leaves the bytes after
\* the value as they were
V1SetPanics(tag, entry, value) ==
  V1Field(entry) # "" /\ Len(value) > Len(tag[V1Field(entry)])
V1Set(tag, entry, value) ==
  IF V1Field(entry) = "" THEN tag
  ELSE [tag EXCEPT ![V1Field(entry)] = value \o Drop(@, Len(value))]
\* Tag::write_to_file: TagNotFound on a file shorter than 128 bytes, else the
\* last 128 bytes of the file are overwritten
V1WriteFails(f) == Len(f) < ID3V1_TAG_SIZE
V1WriteToFile(f, tag) == WriteAt(f, Len(f) - ID3V1_TAG_SIZE, V1TagBytes(tag))

\* id3::v1::tag::TagReader after TagReaderStrategy::init(path), then get_meta_entry
V1ReaderInitGet(f, entry) ==
  IF ~has_id3v1_tag(f) THEN RdErr("TagNotFound")
  ELSE IF V1Field(entry) = "" THEN RdErr("EntryNotFound")
  ELSE RdOk(TrimEnd(Utf8Lossy(V1ReadFromFile(f)[V1Field(entry)])))


\* ===================================================================== APE
\* ApeTagHeader::from_buffer on 32 bytes: the identifier must match
ApeHeaderMatches(buffer) == SubSeq(buffer, 1, 8) = APE_TAG_IDENTIFIER
ApeHeaderFromBuffer(buffer) ==
  [version |-> U32FromLe(SubSeq(buffer, 9, 12)), size |-> U32FromLe(SubSeq(buffer, 13, 16)),
   item_count |-> U32FromLe(SubSeq(buffer, 17, 20)), flags |-> SubSeq(buffer, 21, 24),
   reserved |-> SubSeq(buffer, 25, 32)]
\* ApeTagHeader::to_buffer
ApeHeaderToBuffer(h) ==
  APE_TAG_IDENTIFIER \o U32ToLe(h.version) \o U32ToLe(h.size) \o U32ToLe(h.item_count)
  \o h.flags \o h.reserved
\* ApeTagHeader::new
ApeHeaderNew(version, size, item_count, flags) ==
  [version |-> version, size |-> size, item_count |-> item_count, flags |-> flags,
   reserved |-> Zeros(8)]
\* ApeTagHeader::is_header / has_header
ApeIsHeader(h) == FlagBit(h.flags, 29)
ApeHasHeader(h) == FlagBit(h.flags, 31)

\* ApeItem::new_text, ApeItem::total_size
ApeItemNewText(key, value) ==
  [size |-> Len(value), flags |-> APE_ITEM_FLAG_UTF8, key |-> key, value |-> value]
ApeItemTotalSize(item) == 8 + Len(item.key) + 1 + item.size
\* the bytes ApeWriter::write_tag emits for one item
ApeItemBytes(item) == U32ToLe(item.size) \o item.flags \o item.key \o <<0>> \o item.value

\* ApeReader::read_item, the key loop: at most MAX_KEY_LENGTH bytes are read,
\* a NUL ends the key.  Yields the key length, MAX_KEY_LENGTH when no NUL was
\* met, -1 when the file ended first.  kstart is the 0-based start of the key.
\* n is the number of key bytes read so far.
ApeKeyLen(f, kstart, n) ==
  LET nuls == {m \in n..(MAX_KEY_LENGTH - 1) : kstart + m < Len(f) /\ f[kstart + m + 1] = 0} IN
  IF nuls # {} THEN CHOOSE m \in nuls : \A k \in nuls : m <= k
  ELSE IF kstart + MAX_KEY_LENGTH > Len(f) THEN 0 - 1
  ELSE MAX_KEY_LENGTH
NoItem == [size |-> 0, flags |-> APE_ITEM_FLAG_UTF8, key |-> <<>>, value |-> <<>>]
\* ApeReader::read_item at 0-based position pos: [err, item, next]
ApeReadItem(f, pos) ==
  IF pos + 8 > Len(f) THEN [err |-> "Io", item |-> NoItem, next |-> pos]
  ELSE LET size == U32FromLe(SubSeq(f, pos + 1, pos + 4))
           flags == SubSeq(f, pos + 5, pos + 8)
           klen == ApeKeyLen(f, pos + 8, 0)
           key_bytes == SubSeq(f, pos + 9, pos + 8 + klen)
           vstart == pos + 8 + klen + 1
       IN IF size > MAX_VALUE_SIZE THEN [err |-> "Other", item |-> NoItem, next |-> pos]
          ELSE IF klen < 0 THEN [err |-> "Io", item |-> NoItem, next |-> pos]
          ELSE IF klen >= MAX_KEY_LENGTH THEN [err |-> "Other", item |-> NoItem, next |-> pos]
          ELSE IF ~IsUtf8(key_bytes) THEN [err |-> "Other", item |-> NoItem, next |-> pos]
          ELSE IF vstart + size > Len(f) THEN [err |-> "Io", item |-> NoItem, next |-> pos]
          ELSE [err |-> "",
                item |-> [size |-> size, flags |-> flags, key |-> key_bytes,
                          value |-> SubSeq(f, vstart + 1, vstart + size)],
                next |-> vstart + size]
\* ApeReader::read_items
RECURSIVE ApeReadItems(_, _, _, _)
ApeReadItems(f, pos, n, acc) ==
  IF n = 0 THEN [err |-> "", items |-> acc]
  ELSE LET r == ApeReadItem(f, pos) IN
    IF r.err # "" THEN [err |-> r.err, items |-> <<>>]
    ELSE ApeReadItems(f, r.next, n - 1, Append(acc, r.item))

NoApeTag == [err |-> "TagNotFound", has_header |-> FALSE, header |-> ApeHeaderNew(0, 0, 0, APE_ITEM_FLAG_UTF8),
             footer |-> ApeHeaderNew(0, 0, 0, APE_ITEM_FLAG_UTF8), items |-> <<>>]
ApeFail(e) == [NoApeTag EXCEPT !.err = e]
\* ApeReader::read_tag_with_footer: seek_to_tag_data seeks from the END of the
\* file by the footer's size (plus 32 when the footer announces a header)
read_tag_with_footer(f, footer) ==
  LET start == Len(f) - (IF ApeHasHeader(footer) THEN footer.size + APE_TAG_HEADER_SIZE ELSE footer.size)
      hbuf == SubSeq(f, start + 1, start + APE_TAG_HEADER_SIZE)
      ipos == IF ApeHasHeader(footer) THEN start + APE_TAG_HEADER_SIZE ELSE start
      its == ApeReadItems(f, ipos, footer.item_count, <<>>)
  IN IF start < 0 THEN ApeFail("Io")
     ELSE IF ApeHasHeader(footer) /\ start + APE_TAG_HEADER_SIZE > Len(f) THEN ApeFail("Io")
     ELSE IF ApeHasHeader(footer) /\ ~ApeHeaderMatches(hbuf) THEN ApeFail("TagNotFound")
     ELSE IF ApeHasHeader(footer) /\ ~ApeIsHeader(ApeHeaderFromBuffer(hbuf)) THEN ApeFail("Other")
     ELSE IF its.err # "" THEN ApeFail(its.err)
     ELSE [err |-> "", has_header |-> ApeHasHeader(footer),
           header |-> IF ApeHasHeader(footer) THEN ApeHeaderFromBuffer(hbuf) ELSE ApeHeaderNew(0, 0, 0, APE_ITEM_FLAG_UTF8),
           footer |-> footer, items |-> its.items]
\* ApeReader::read_tag
ApeReadTag(f) ==
  LET atEnd == SubSeq(f, Len(f) - APE_TAG_FOOTER_SIZE + 1, Len(f))
      beforeV1 == SubSeq(f, Len(f) - (APE_TAG_FOOTER_SIZE + 128) + 1, Len(f) - 128)
  IN IF Len(f) < APE_TAG_FOOTER_SIZE THEN NoApeTag
     ELSE IF ApeHeaderMatches(atEnd) THEN read_tag_with_footer(f, ApeHeaderFromBuffer(atEnd))
     ELSE IF Len(f) >= APE_TAG_FOOTER_SIZE + 128 /\ ApeHeaderMatches(beforeV1)
     THEN read_tag_with_footer(f, ApeHeaderFromBuffer(beforeV1))
     ELSE NoApeTag

\* ApeTag::get_item: first item whose key matches ASCII case-insensitively (0 = none)
ApeItemIndex(items, key) ==
  IF \E i \in 1..Len(items) : EqIgnoreAsciiCase(items[i].key, key)
  THEN CHOOSE i \in 1..Len(items) :
         EqIgnoreAsciiCase(items[i].key, key)
         /\ \A j \in 1..(i - 1) : ~EqIgnoreAsciiCase(items[j].key, key)
  ELSE 0
\* ApeReader as TagReaderStrategy::get_meta_entry: Ok(Some(v)) is [ok |-> TRUE],
\* Ok(None) is err "None", Err(e) is err e
ApeGetMetaEntry(f, entry) ==
  LET tag == ApeReadTag(f)
      idx == ApeItemIndex(tag.items, meta_entry_to_ape_key(entry))
  IN IF tag.err = "TagNotFound" THEN RdErr("None")
     ELSE IF tag.err # "" THEN RdErr(tag.err)
     ELSE IF idx = 0 THEN RdErr("None")
     ELSE IF FlagBit(tag.items[idx].flags, 1) THEN RdErr("Other")
     ELSE IF ~IsUtf8(tag.items[idx].value) THEN RdErr("Other")
     ELSE RdOk(tag.items[idx].value)


\* ---------------------------------------------------------------- ApeWriter
\* ApeTag::new: header and footer with size 32 and no items
ApeTagNew ==
  [err |-> "", has_header |-> TRUE,
   header |-> ApeHeaderNew(APE_TAG_VERSION_2_0, APE_TAG_FOOTER_SIZE, 0,
                           FlagOr(APE_TAG_FLAG_HAS_HEADER, APE_TAG_FLAG_IS_HEADER)),
   footer |-> ApeHeaderNew(APE_TAG_VERSION_2_0, APE_TAG_FOOTER_SIZE, 0, APE_TAG_FLAG_HAS_HEADER),
   items |-> <<>>]
RECURSIVE ApeItemsSize(_)
ApeItemsSize(items) ==
  IF items = <<>> THEN 0 ELSE ApeItemTotalSize(Head(items)) + ApeItemsSize(Tail(items))
\* ApeTag::update_size_and_count (and the same code at the end of set_text_item):
\* size = footer + header (when there is one) + items
update_size_and_count(tag) ==
  LET total_size == APE_TAG_FOOTER_SIZE + (IF tag.has_header THEN APE_TAG_HEADER_SIZE ELSE 0)
                    + ApeItemsSize(tag.items)
      set(h) == [h EXCEPT !.item_count = Len(tag.items), !.size = total_size]
  IN [tag EXCEPT !.footer = set(@), !.header = IF tag.has_header THEN set(@) ELSE @]
\* a set_text_item that drops the old item and pushes the new one
set_text_item_moved(tag, key, value) ==
  update_size_and_count(
    [tag EXCEPT !.items = Append(SelectSeq(@, LAMBDA item : ~EqIgnoreAsciiCase(item.key, key)),
                                 ApeItemNewText(key, value))])
\* ApeTag::set_text_item
set_text_item(tag, key, value) ==
  LET index == ApeItemIndex(tag.items, key)
      item == ApeItemNewText(key, value)
  IN update_size_and_count(
       [tag EXCEPT !.items = IF index > 0 THEN [@ EXCEPT ![index] = item] ELSE Append(@, item)])
\* ApeTag::remove_item: size and count are updated only when an item went
remove_item(tag, key) ==
  LET kept == SelectSeq(tag.items, LAMBDA item : ~EqIgnoreAsciiCase(item.key, key)) IN
  IF Len(kept) < Len(tag.items) THEN update_size_and_count([tag EXCEPT !.items = kept]) ELSE tag
\* the bytes ApeWriter::write_tag appends for a tag: header, items, footer
RECURSIVE ApeItemsBytes(_)
ApeItemsBytes(items) ==
  IF items = <<>> THEN <<>> ELSE ApeItemBytes(Head(items)) \o ApeItemsBytes(Tail(items))
ApeTagBytes(tag) ==
  (IF tag.has_header THEN ApeHeaderToBuffer(tag.header) ELSE <<>>)
  \o ApeItemsBytes(tag.items) \o ApeHeaderToBuffer(tag.footer)
\* check_id3v1_tag: the trailing record when there is one, else nothing
check_id3v1_tag(f) ==
  IF Len(f) >= 128 /\ SubSeq(f, Len(f) - 127, Len(f) - 125) = <<84, 65, 71>>
  THEN SubSeq(f, Len(f) - 127, Len(f)) ELSE <<>>
\* what ApeWriter::write_tag puts into the temporary file: the whole of P
\* (copy_file_range from offset 0 to the end), the tag, the V1 record again
ApeWriteTagBytes(f, tag) == f \o ApeTagBytes(tag) \o check_id3v1_tag(f)
\* what ApeWriter::remove_tag puts into the temporary file
ApeRemoveTagBytes(f) == f \o check_id3v1_tag(f)
\* ape::common::has_ape_tag: a footer at the end, a header at the start, or a
\* footer before a V1 record; "Io" when read_exact at the start meets the end
has_ape_tag(f) ==
  LET n == APE_TAG_FOOTER_SIZE
      first == Take(f, n)
  IN IF Len(f) >= n /\ ApeHeaderMatches(SubSeq(f, Len(f) - n + 1, Len(f))) THEN "yes"
     ELSE IF Len(f) < n THEN "Io"
     ELSE IF ApeHeaderMatches(first) /\ ApeIsHeader(ApeHeaderFromBuffer(first)) THEN "yes"
     ELSE IF Len(f) >= n + 128 /\ ApeHeaderMatches(SubSeq(f, Len(f) - n - 127, Len(f) - 128)) THEN "yes"
     ELSE "no"


\* ============================================================ orchestrator
TagTypes == {"Id3v2", "Id3v1", "Ape"}

\* tag::TagReader::new: the three reader strategies in the order V2, V1, APE.
\* TagReader::init does not initialise them, so the V2 and V1 strategies hold
\* no cached tag (initialised = FALSE).
TagReaderNew ==
  << [tag_type |-> "Id3v2", initialised |-> FALSE],
     [tag_type |-> "Id3v1", initialised |-> FALSE],
     [tag_type |-> "Ape", initialised |-> FALSE] >>
\* ReaderStrategy::get_meta_entry
ReaderStrategyGet(strategy, f, entry) ==
  CASE strategy.tag_type = "Id3v2" ->
         IF strategy.initialised THEN V2ReaderInitGet(f, entry) ELSE RdErr("TagNotFound")
    [] strategy.tag_type = "Id3v1" ->
         IF strategy.initialised THEN V1ReaderInitGet(f, entry) ELSE RdErr("TagNotFound")
    [] OTHER -> ApeGetMetaEntry(f, entry)
\* tag::TagReader::get_meta_entry: the first strategy that returns Ok(Some(v))
RECURSIVE FirstValue(_, _, _)
FirstValue(strategies, f, entry) ==
  IF strategies = <<>> THEN RdErr("EntryNotFound")
  ELSE LET r == ReaderStrategyGet(Head(strategies), f, entry) IN
    IF r.ok THEN r ELSE FirstValue(Tail(strategies), f, entry)
TagReaderGet(f, entry) == FirstValue(TagReaderNew, f, entry)

\* TagWriterBuilder::build: the default strategies when none was added
DefaultStrategies == <<"Id3v2", "Id3v1", "Ape">>
\* TagWriter::set_meta_entry: the strategy the call goes through: the first
\* one of the preferred type, else the first strategy of the list
SelectStrategy(strategies, preferred) ==
  IF \E i \in 1..Len(strategies) : strategies[i] = preferred THEN preferred ELSE strategies[1]

\* ------------------------------------------------------------ model inputs
Audio == [i \in 1..AudioLen |-> 128 + (i % 64)]
TIT2 == <<84, 73, 84, 50>>
\* an ID3v2.3 tag: TIT2 = "Old", then an RVAD frame (a standard binary frame
\* that FRAME_MAP does not list)
RVAD == <<82, 86, 65, 68>>
InV2Tag ==
  LET fr == FrameToBytes(FrameNew(TIT2, <<79, 108, 100>>))
            \o FrameToBytes([id |-> RVAD, content |-> <<>>, data |-> <<1, 2>>]) IN
  HeaderToBytes([version |-> 3, revision |-> 0, flags |-> 0, size |-> Len(fr)]) \o fr
InV1Tag == V1TagBytes([V1TagNew EXCEPT !.title = <<66, 97, 114>> \o Zeros(TITLE_SIZE - 3)])
InApeTag ==
  LET item == ApeItemNewText(<<84, 73, 84, 76, 69>>, <<70, 111, 111>>)
      size == ApeItemTotalSize(item) + APE_TAG_FOOTER_SIZE
  IN ApeHeaderToBuffer(ApeHeaderNew(APE_TAG_VERSION_2_0, size, 1,
                                    FlagOr(APE_TAG_FLAG_HAS_HEADER, APE_TAG_FLAG_IS_HEADER)))
     \o ApeItemBytes(item)
     \o ApeHeaderToBuffer(ApeHeaderNew(APE_TAG_VERSION_2_0, size, 1, APE_TAG_FLAG_HAS_HEADER))
InitialFiles ==
  {<<>>} \cup
  {v2 \o Audio \o ape \o v1 : v2 \in {<<>>, InV2Tag}, ape \in {<<>>, InApeTag}, v1 \in {<<>>, InV1Tag}}
Entries == {Std("Title"), Std("Year"), Std("Composer")}
\* "X", and a value one byte longer than the V1 year field
Values == {<<88>>, [i \in 1..(YEAR_SIZE + 1) |-> 89]}
StrategyLists == {DefaultStrategies, <<"Id3v1">>}

\* ------------------------------------------------------------------- state
VARIABLES
  file,      \* the bytes of P
  writer,    \* the TagWriter: strategies, preferred type, the V1 strategy's cached tag
  pc,        \* "idle", or "v2_frames" between the two write_all of V2 write_tag
  pending,   \* the frame data the running V2 write_tag has still to write
  before,    \* P as it was when the last set_meta_entry call started
  last,      \* the last set_meta_entry call and its result
  prev,      \* the call before it
  writes,    \* number of write calls so far
  temp,      \* the temporary file next to P: [exists, bytes]
  op,        \* the ApeWriter operation that ran last: [name, emptied]
  sync,      \* the synchsafe codec's input and outputs: [n, bytes, header, decoded, stage]
  ape        \* an in-memory ApeTag, where it came from, the last call on it and the
             \* items before that call: [tag, stage, call, was]
vars == <<file, writer, pc, pending, before, last, prev, writes, temp, op, sync, ape>>

NoTemp == [exists |-> FALSE, bytes |-> <<>>]
NoOp == [name |-> "", emptied |-> FALSE]
NoSync == [n |-> 0, bytes |-> <<0, 0, 0, 0>>, header |-> <<>>, decoded |-> 0, stage |-> "idle"]
NoApe == [tag |-> ApeTagNew, stage |-> "new", call |-> [name |-> "", key |-> <<>>, value |-> <<>>],
          was |-> <<>>]
NoWriter == [live |-> FALSE, strategies |-> <<>>, preferred |-> "Id3v2", v1tag |-> V1TagNew, fresh |-> FALSE]
NoCall == [entry |-> Std("Title"), value |-> <<>>, preferred |-> "Id3v2", via |-> "", result |-> "",
           fresh |-> FALSE]

Init ==
  /\ file \in InitialFiles
  /\ writer = NoWriter
  /\ pc = "idle"
  /\ pending = <<>>
  /\ before = file
  /\ last = NoCall
  /\ prev = NoCall
  /\ writes = 0
  /\ temp = NoTemp
  /\ op = NoOp
  /\ sync = NoSync
  /\ ape = NoApe

\* TagWriterBuilder::new(P).with_strategy(..).with_preferred_tag_type(..).build():
\* TagWriter::init initialises every strategy; the V1 strategy caches the record
NewWriter(strategies, preferred) ==
  /\ pc = "idle"
  /\ writes < MaxWrites
  /\ writer' = [live |-> TRUE, strategies |-> strategies, preferred |-> preferred,
                v1tag |-> V1WriterInit(file), fresh |-> TRUE]
  /\ UNCHANGED <<file, pc, pending, before, last, prev, writes, temp, op, sync, ape>>

Call(entry, value, via, result) ==
  [entry |-> entry, value |-> value, preferred |-> writer.preferred, via |-> via,
   result |-> result, fresh |-> writer.fresh]

\* bookkeeping shared by every way a set_meta_entry call ends
Finish(call) ==
  /\ last' = call
  /\ prev' = last
  /\ pc' = "idle"
  /\ pending' = <<>>

\* TagWriter::set_meta_entry through the ID3v2 strategy, up to and including
\* the first write_all (the header) of write_tag
SetV2(entry, value) ==
  LET tag == V2Prepare(file, entry, value) IN
  /\ before' = file
  /\ writes' = writes + 1
  /\ IF tag.err # ""
     THEN /\ Finish(Call(entry, value, "Id3v2", tag.err))
          /\ writer' = [writer EXCEPT !.fresh = FALSE]
          /\ UNCHANGED file
     ELSE IF V2WritePanics(tag)
     THEN /\ Finish(Call(entry, value, "Id3v2", "Panic"))
          /\ writer' = NoWriter
          /\ UNCHANGED file
     ELSE \E order \in Orders(DOMAIN tag.frames) :
          LET frame_data == V2FrameData(tag, order) IN
          /\ file' = WriteAt(file, 0, V2HeaderBytes(tag, frame_data))
          /\ pending' = frame_data
          /\ pc' = "v2_frames"
          /\ last' = Call(entry, value, "Id3v2", "Running")
          /\ prev' = last
          /\ writer' = [writer EXCEPT !.fresh = FALSE]

\* the second write_all of write_tag (the frame data), then Ok
V2WriteFrames ==
  /\ pc = "v2_frames"
  /\ file' = WriteAt(file, HEADER_SIZE, pending)
  /\ last' = [last EXCEPT !.result = "Ok"]
  /\ pc' = "idle"
  /\ pending' = <<>>
  /\ UNCHANGED <<writer, before, prev, writes, temp, op, sync, ape>>

\* the second write_all fails (the device reports an error): write_tag returns it
V2WriteFramesFail ==
  /\ pc = "v2_frames"
  /\ last' = [last EXCEPT !.result = "Io"]
  /\ pc' = "idle"
  /\ pending' = <<>>
  /\ UNCHANGED <<file, writer, before, prev, writes, temp, op, sync, ape>>

\* TagWriter::set_meta_entry through the ID3v1 strategy: set_meta_entry on the
\* cached record, then save
SetV1(entry, value) ==
  /\ before' = file
  /\ writes' = writes + 1
  /\ IF V1SetPanics(writer.v1tag, entry, value)
     THEN /\ Finish(Call(entry, value, "Id3v1", "Panic"))
          /\ writer' = NoWriter
          /\ UNCHANGED file
     ELSE LET tag == V1Set(writer.v1tag, entry, value) IN
          /\ writer' = [writer EXCEPT !.v1tag = tag, !.fresh = FALSE]
          /\ IF V1WriteFails(file)
             THEN /\ Finish(Call(entry, value, "Id3v1", "TagNotFound"))
                  /\ UNCHANGED file
             ELSE /\ Finish(Call(entry, value, "Id3v1", "Ok"))
                  /\ file' = V1WriteToFile(file, tag)

\* TagWriter::set_meta_entry through the APE strategy: ApeWriter::init loads
\* nothing, so set_meta_entry finds no tag and returns TagNotFound
SetApe(entry, value) ==
  /\ before' = file
  /\ writes' = writes + 1
  /\ Finish(Call(entry, value, "Ape", "TagNotFound"))
  /\ writer' = [writer EXCEPT !.fresh = FALSE]
  /\ UNCHANGED file

\* tag::TagWriter::set_meta_entry
SetMetaEntry(entry, value) ==
  /\ pc = "idle"
  /\ writer.live
  /\ writes < MaxWrites
  /\ UNCHANGED <<temp, op, sync, ape>>
  /\ LET via == SelectStrategy(writer.strategies, writer.preferred) IN
     CASE via = "Id3v2" -> SetV2(entry, value)
       [] via = "Id3v1" -> SetV1(entry, value)
       [] OTHER -> SetApe(entry, value)

Next ==
  \/ \E s \in StrategyLists, t \in TagTypes : NewWriter(s, t)
  \/ \E e \in Entries, v \in Values : SetMetaEntry(e, v)
  \/ V2WriteFrames
  \/ V2WriteFramesFail

Spec == Init /\ [][Next]_vars

\* ------------------------------------------------- the ApeWriter operations
\* an ApeWriter operation returns without starting a temporary file
ApeReturn(entry, value, name, result) ==
  /\ Finish([NoCall EXCEPT !.entry = entry, !.value = value, !.via = "ApeWriter", !.result = result])
  /\ op' = [name |-> name, emptied |-> FALSE]
  /\ UNCHANGED <<file, temp>>
\* write_tag / remove_tag up to the creation (and truncation) of the temporary file
ApeCreateTemp(entry, value, name, emptied, bytes) ==
  /\ temp' = [exists |-> TRUE, bytes |-> <<>>]
  /\ pending' = bytes
  /\ pc' = "ape_copy"
  /\ last' = [NoCall EXCEPT !.entry = entry, !.value = value, !.via = "ApeWriter", !.result = "Running"]
  /\ prev' = last
  /\ op' = [name |-> name, emptied |-> emptied]
  /\ UNCHANGED file

\* ApeWriter::set_meta_entries(P, {entry: value})
ApeSetMetaEntries(entry, value) ==
  LET tag == ApeReadTag(file) IN
  /\ pc = "idle"
  /\ writes < MaxWrites
  /\ before' = file
  /\ writes' = writes + 1
  /\ UNCHANGED <<writer, sync, ape>>
  /\ IF tag.err \notin {"", "TagNotFound"}
     THEN ApeReturn(entry, value, "set_meta_entries", tag.err)
     ELSE ApeCreateTemp(entry, value, "set_meta_entries", FALSE,
            ApeWriteTagBytes(file, set_text_item(IF tag.err = "" THEN tag ELSE ApeTagNew,
                                                 meta_entry_to_ape_key(entry), value)))

\* ApeWriter::remove_meta_entries(P, [entry])
ApeRemoveMetaEntries(entry) ==
  LET tag == ApeReadTag(file)
      left == remove_item(tag, meta_entry_to_ape_key(entry))
  IN
  /\ pc = "idle"
  /\ writes < MaxWrites
  /\ before' = file
  /\ writes' = writes + 1
  /\ UNCHANGED <<writer, sync, ape>>
  /\ IF tag.err = "TagNotFound" THEN ApeReturn(entry, <<>>, "remove_meta_entries", "Ok")
     ELSE IF tag.err # "" THEN ApeReturn(entry, <<>>, "remove_meta_entries", tag.err)
     ELSE IF left.items # <<>>
     THEN ApeCreateTemp(entry, <<>>, "remove_meta_entries", FALSE, ApeWriteTagBytes(file, left))
     ELSE IF has_ape_tag(file) = "yes"
     THEN ApeCreateTemp(entry, <<>>, "remove_meta_entries", TRUE, ApeRemoveTagBytes(file))
     ELSE ApeReturn(entry, <<>>, "remove_meta_entries", IF has_ape_tag(file) = "no" THEN "Ok" ELSE "Io")

\* write_tag / remove_tag: P is opened and copied, tag and V1 record are written
ApeCopy ==
  /\ pc = "ape_copy"
  /\ temp' = [temp EXCEPT !.bytes = pending]
  /\ pc' = "ape_rename"
  /\ pending' = <<>>
  /\ UNCHANGED <<file, writer, before, last, prev, writes, op, sync, ape>>
\* opening P or a write to the temporary file fails: the `?` returns the error
ApeCopyFail ==
  /\ pc = "ape_copy"
  /\ last' = [last EXCEPT !.result = "Io"]
  /\ pc' = "idle"
  /\ pending' = <<>>
  /\ UNCHANGED <<file, writer, before, prev, writes, temp, op, sync, ape>>
\* util::rename_file succeeds: the temporary file becomes P
ApeRename ==
  /\ pc = "ape_rename"
  /\ file' = temp.bytes
  /\ temp' = NoTemp
  /\ last' = [last EXCEPT !.result = "Ok"]
  /\ pc' = "idle"
  /\ UNCHANGED <<writer, pending, before, prev, writes, op, sync, ape>>
\* util::rename_file fails: FileRenameError is returned
ApeRenameFail ==
  /\ pc = "ape_rename"
  /\ last' = [last EXCEPT !.result = "FileRenameError"]
  /\ pc' = "idle"
  /\ UNCHANGED <<file, writer, pending, before, prev, writes, temp, op, sync, ape>>

NextApe ==
  \/ \E e \in Entries, v \in Values : ApeSetMetaEntries(e, v)
  \/ \E e \in Entries : ApeRemoveMetaEntries(e)
  \/ ApeCopy
  \/ ApeCopyFail
  \/ ApeRename
  \/ ApeRenameFail

SpecApe == Init /\ [][NextApe]_vars


\* ------------------------------------------------------ the synchsafe codec
\* the u32 values the encoder is run on: around every 7-bit boundary, mixed
\* bit patterns, and values of 2^28 and more
SyncInputs ==
  {2 ^ k + d : k \in {0, 7, 14, 21, 28, 29, 30}, d \in (0 - 1)..SyncSpread}
  \cup {2 ^ 28 - 2 - d : d \in 0..SyncSpread}
  \cup {178956970, 89478485, 19088743, 2147483647}
\* the 4-byte inputs the decoder is run on directly: top bits set and clear
SyncRawInputs ==
  {<<a, b, c, d>> : a \in {0, 128, 255}, b \in {1, 129}, c \in {127, 255}, d \in {0, 2, 130}}

\* int_to_synchsafe(n), and Header::to_bytes of a header of size n
SyncEncode(n) ==
  /\ sync.stage = "idle"
  /\ sync' = [sync EXCEPT !.n = n, !.bytes = int_to_synchsafe(n), !.stage = "encoded",
                          !.header = HeaderToBytes([version |-> 3, revision |-> 0, flags |-> 0, size |-> n])]
  /\ UNCHANGED <<file, writer, pc, pending, before, last, prev, writes, temp, op, ape>>
\* synchsafe_to_int on the encoder's bytes
SyncDecode ==
  /\ sync.stage = "encoded"
  /\ sync' = [sync EXCEPT !.decoded = synchsafe_to_int(sync.bytes), !.stage = "decoded"]
  /\ UNCHANGED <<file, writer, pc, pending, before, last, prev, writes, temp, op, ape>>
\* synchsafe_to_int on arbitrary bytes
SyncDecodeRaw(bytes) ==
  /\ sync.stage = "idle"
  /\ sync' = [sync EXCEPT !.bytes = bytes, !.decoded = synchsafe_to_int(bytes), !.stage = "raw"]
  /\ UNCHANGED <<file, writer, pc, pending, before, last, prev, writes, temp, op, ape>>

InitSync ==
  /\ file = <<>>
  /\ writer = NoWriter
  /\ pc = "idle"
  /\ pending = <<>>
  /\ before = <<>>
  /\ last = NoCall
  /\ prev = NoCall
  /\ writes = 0
  /\ temp = NoTemp
  /\ op = NoOp
  /\ sync = NoSync
  /\ ape = NoApe
NextSync ==
  \/ \E n \in SyncInputs : SyncEncode(n)
  \/ SyncDecode
  \/ \E bytes \in SyncRawInputs : SyncDecodeRaw(bytes)

SpecSync == InitSync /\ [][NextSync]_vars


\* ======================================================== claim vocabulary
\* id3::v1::meta_entry::is_supported, id3::v2::meta_entry::is_supported; the
\* MetaEntry documentation: APE supports all entries
V1IsSupported(entry) == entry.variant \in {"Title", "Artist", "Album", "Year", "Comment"}
V2IsSupported(entry) == entry.variant \in StandardEntryNames \cup {"Custom"}
Supports(tag_type, entry) ==
  CASE tag_type = "Id3v1" -> V1IsSupported(entry)
    [] tag_type = "Id3v2" -> V2IsSupported(entry) /\ get_frame_id_for_version(entry, 3) # NoneId
    [] OTHER -> TRUE

\* The three tag regions of a file, by the on-disk layout rules: the V2
\* prefix (header plus declared size), the trailing 128-byte V1 record, the
\* APE block that ends at the end of the file or just before the V1 record.
V2Len(f) ==
  IF has_id3v2_tag(f) THEN Min(Len(f), HEADER_SIZE + HeaderParse(Take(f, HEADER_SIZE)).size) ELSE 0
V1Len(f) == IF has_id3v1_tag(f) THEN ID3V1_TAG_SIZE ELSE 0
ApeLen(f) ==
  LET fend == Len(f) - V1Len(f)
      footer == SubSeq(f, fend - APE_TAG_FOOTER_SIZE + 1, fend)
  IN IF fend >= APE_TAG_FOOTER_SIZE /\ ApeHeaderMatches(footer)
     THEN Min(fend, ApeHeaderFromBuffer(footer).size
                    + (IF ApeHasHeader(ApeHeaderFromBuffer(footer)) THEN APE_TAG_HEADER_SIZE ELSE 0))
     ELSE 0
V2Region(f) == Take(f, V2Len(f))
V1Region(f) == SubSeq(f, Len(f) - V1Len(f) + 1, Len(f))
ApeRegion(f) == SubSeq(f, Len(f) - V1Len(f) - ApeLen(f) + 1, Len(f) - V1Len(f))
Region(tag_type, f) ==
  CASE tag_type = "Id3v2" -> V2Region(f)
    [] tag_type = "Id3v1" -> V1Region(f)
    [] OTHER -> ApeRegion(f)
\* the audio body: every byte outside the three tag regions
AudioBody(f) == SubSeq(f, V2Len(f) + 1, Len(f) - V1Len(f) - ApeLen(f))

\* the file holds entry = value in the tag of the given format (for V1: the
\* field starts with the value)
Reflects(tag_type, f, entry, value) ==
  CASE tag_type = "Id3v2" -> V2ReaderInitGet(f, entry) = RdOk(value)
    [] tag_type = "Id3v1" ->
         /\ has_id3v1_tag(f)
         /\ V1Field(entry) # ""
         /\ Take(V1ReadFromFile(f)[V1Field(entry)], Len(value)) = value
    [] OTHER -> ApeGetMetaEntry(f, entry) = RdOk(value)

\* a set_meta_entry call has returned (it is not running, and did not panic)
Returned == pc = "idle" /\ last.result \notin {"", "Running", "Panic"}
Succeeded == pc = "idle" /\ last.result = "Ok"
IsError(result) == result \notin {"", "Running", "Panic", "Ok"}
\* what the priority order V2, V1, APE yields for an entry of a file
ByPriority(f, entry) ==
  IF V2ReaderInitGet(f, entry).ok THEN V2ReaderInitGet(f, entry)
  ELSE IF V1ReaderInitGet(f, entry).ok THEN V1ReaderInitGet(f, entry)
  ELSE IF ApeGetMetaEntry(f, entry).ok THEN ApeGetMetaEntry(f, entry)
  ELSE RdErr("EntryNotFound")

\* ================================================================== claims
\* C1: round trip. After set_meta_entry(K, V) with preferred format F has
\* succeeded, F supporting K, a freshly built TagReader returns exactly V for K.
C1_RoundTrip ==
  (Succeeded /\ last.via = last.preferred /\ Supports(last.preferred, last.entry))
    => TagReaderGet(file, last.entry) = RdOk(last.value)

\* C2: two distinct keys written by two successive calls, each with its own
\* TagWriter, are both readable afterwards with the values written.
C2_BothKeysKept ==
  (Succeeded /\ prev.result = "Ok" /\ last.fresh /\ prev.fresh
     /\ last.entry # prev.entry
     /\ last.via = last.preferred /\ prev.via = prev.preferred
     /\ Supports(last.preferred, last.entry) /\ Supports(prev.preferred, prev.entry))
    => /\ TagReaderGet(file, prev.entry) = RdOk(prev.value)
       /\ TagReaderGet(file, last.entry) = RdOk(last.value)

\* C3: a successful write leaves the audio body (the bytes outside the three
\* tag regions) byte-identical.
C3_AudioBodyKept ==
  (Succeeded /\ last.via = last.preferred) => AudioBody(file) = AudioBody(before)

\* C4: a write through preferred format F leaves the regions of the other two
\* formats as they were: same bytes, same place.
C4_SiblingsKept ==
  (Succeeded /\ last.via = last.preferred)
    => \A t \in TagTypes \ {last.preferred} : Region(t, file) = Region(t, before)

\* C5: a write is atomic: it returns Ok and the file holds the change, or it
\* returns an error and the file is byte-identical to the file before the call.
C5_Atomic ==
  (Returned /\ last.via = last.preferred /\ Supports(last.preferred, last.entry))
    => IF last.result = "Ok"
       THEN Reflects(last.preferred, file, last.entry, last.value)
       ELSE file = before

\* C6: a read returns the value of the first format, in the order V2, V1, APE,
\* that holds a value for the key, and EntryNotFound when none does.
C6_ReadPriority == \A e \in Entries : TagReaderGet(file, e) = ByPriority(file, e)

\* C7: writing a key V1 does not support with preferred format V1 returns an
\* error and leaves the file unchanged.
C7_V1Unsupported ==
  (Returned /\ last.preferred = "Id3v1" /\ last.via = "Id3v1" /\ ~V1IsSupported(last.entry))
    => IsError(last.result) /\ file = before

\* C8: no silent fallback: a call that does not return an error went through
\* the strategy of the preferred tag type, and nothing is written through
\* another one.
C8_NoFallback ==
  (Returned /\ (last.result = "Ok" \/ file # before)) => last.via = last.preferred

C10_NoTornFile ==
  pc = "v2_frames" => (file = before \/ file = WriteAt(file, HEADER_SIZE, pending))


\* C11: after an ApeWriter write that fails, no temporary file remains next to
\* P and P is as it was before the call.
C11_NoTempLeft ==
  (Returned /\ op.name # "" /\ IsError(last.result)) => ~temp.exists /\ file = before

\* C12: on read, an I/O error of a format codec is surfaced by
\* TagReader::get_meta_entry: when no earlier format yields a value and the APE
\* codec fails with an I/O error, the call returns that error.
C12_IoErrorSurfaced ==
  \A e \in Entries :
    (ApeGetMetaEntry(file, e).err = "Io" /\ ~V2ReaderInitGet(file, e).ok /\ ~V1ReaderInitGet(file, e).ok)
      => TagReaderGet(file, e) = RdErr("Io")

\* C13: a write with preferred format F on a file that holds no F tag builds
\* an empty F tag, applies the change and stores it: the call returns Ok and
\* the file then holds K = V in an F tag.  Stated for F = APE.
C13_EmptyTagCreated ==
  (Returned /\ last.preferred = "Ape" /\ last.via = "Ape" /\ ApeRegion(before) = <<>>)
    => last.result = "Ok" /\ Reflects("Ape", file, last.entry, last.value)

\* C14: when remove_meta_entries leaves the APE tag without items the whole
\* tag is dropped: the file holds no APE tag and the presence probe says so.
C14_EmptiedTagDropped ==
  (Succeeded /\ op.name = "remove_meta_entries" /\ op.emptied)
    => has_ape_tag(file) = "no" /\ ApeLen(file) = 0

\* C15: in a file laid out as audio, APE tag, V1 record, the APE reader finds
\* the footer just before the V1 record and returns the items the tag holds,
\* that is, what it reads from the same file without the V1 record.
C15_ApeBeforeV1 ==
  LET body == Take(file, Len(file) - ID3V1_TAG_SIZE) IN
  (has_id3v1_tag(file) /\ ApeReadTag(body).err = "" /\ Len(ApeReadTag(body).items) > 0)
    => ApeReadTag(file) = ApeReadTag(body)

\* C16: no public operation panics: every set_meta_entry call returns Ok or Err.
C16_NoPanic == last.via = last.preferred => last.result # "Panic"

\* the frames of the V2 tag of a file as they lie on disk, walked by their size
\* fields up to the padding or the end of the tag: a sequence of [id, data]
RECURSIVE FramesOnDisk(_, _)
FramesOnDisk(tag_buf, offset) ==
  IF offset + FRAME_HEADER_SIZE > Len(tag_buf) THEN <<>>
  ELSE LET frame_size == U32FromBe(SubSeq(tag_buf, offset + 5, offset + 8)) IN
    IF offset + FRAME_HEADER_SIZE + frame_size > Len(tag_buf) THEN <<>>
    ELSE IF SubSeq(tag_buf, offset + 1, offset + FRAME_ID_SIZE) = Zeros(FRAME_ID_SIZE) THEN <<>>
    ELSE << [id |-> SubSeq(tag_buf, offset + 1, offset + FRAME_ID_SIZE),
             data |-> SubSeq(tag_buf, offset + FRAME_HEADER_SIZE + 1,
                             offset + FRAME_HEADER_SIZE + frame_size)] >>
         \o FramesOnDisk(tag_buf, offset + FRAME_HEADER_SIZE + frame_size)
V2FramesOf(f) == FramesOnDisk(SubSeq(f, HEADER_SIZE + 1, V2Len(f)), 0)

\* C17: writing one key into a file that has a V2 tag keeps every other frame
\* of that tag: each frame whose identifier is not the written key's is in the
\* rewritten tag with the same payload bytes.
C17_OtherFramesKept ==
  (Succeeded /\ last.via = "Id3v2" /\ has_id3v2_tag(before))
    => \A i \in DOMAIN V2FramesOf(before) :
         V2FramesOf(before)[i].id # get_frame_id_for_version(last.entry, read_existing_tag(before).version)
           => \E j \in DOMAIN V2FramesOf(file) : V2FramesOf(file)[j] = V2FramesOf(before)[i]

\* C18: for n < 2^28 every byte the synchsafe encoder produces has its top
\* bit clear and the decoder gives n back; the decoder ignores the top bit of
\* each byte it is given.
C18_SynchsafeRoundTrip ==
  /\ (sync.stage \in {"encoded", "decoded"} /\ sync.n < 2 ^ 28)
       => \A i \in 1..4 : sync.bytes[i] < 128
  /\ (sync.stage = "decoded" /\ sync.n < 2 ^ 28) => sync.decoded = sync.n
  /\ sync.stage = "raw"
       => sync.decoded = synchsafe_to_int([i \in 1..4 |-> sync.bytes[i] % 128])
\* a round trip of a value that uses all four 7-bit groups has been made
C18_Witness ==
  sync.stage = "decoded" /\ sync.n >= 2 ^ 21 /\ sync.n < 2 ^ 28 /\ sync.decoded = sync.n

\* C19: the encoder rejects values of 2^28 and more instead of truncating, so
\* no V2 header is emitted whose size field decodes to another value than the
\* size it was given.
C19_HeaderSizeFaithful ==
  sync.stage \in {"encoded", "decoded"} => HeaderParse(sync.header).size = sync.n

\* C20: after a V1 write of value V into field F the F slice of the trailer is
\* the first width(F) bytes of V followed by NULs up to width(F).
C20_V1FieldPadded ==
  (Succeeded /\ last.preferred = "Id3v1" /\ last.via = "Id3v1" /\ V1IsSupported(last.entry))
    => LET width == Len(V1TagNew[V1Field(last.entry)]) IN
       V1ReadFromFile(file)[V1Field(last.entry)]
         = Take(last.value, width) \o Zeros(width - Min(width, Len(last.value)))

\* C21: a V1 write on a file without a V1 record (a file shorter than 128
\* bytes included) succeeds and appends the 128-byte record: the file grows
\* by exactly 128 bytes and keeps every earlier byte; a V1 write on a file that
\* ends with a V1 record overwrites the last 128 bytes and keeps the length.
C21_V1AppendOrOverwrite ==
  (pc = "idle" /\ last.preferred = "Id3v1" /\ last.via = "Id3v1"
     /\ V1IsSupported(last.entry) /\ last.result # "Panic")
    => /\ last.result = "Ok"
       /\ Take(file, Len(before) - V1Len(before)) = Take(before, Len(before) - V1Len(before))
       /\ Len(file) = Len(before) - V1Len(before) + ID3V1_TAG_SIZE
       /\ has_id3v1_tag(file)

\* C22: reading a V1 field of a file that ends with a V1 record returns the
\* bytes of the field without its trailing NUL (0) and space (32) bytes, so the
\* returned string holds no NUL padding.
C22_V1TrailingStripped ==
  has_id3v1_tag(file) =>
    \A e \in Entries : V1IsSupported(e) =>
      LET field == V1ReadFromFile(file)[V1Field(e)]
          kept == {i \in 1..Len(field) : field[i] \notin {0, 32}}
          n == IF kept = {} THEN 0 ELSE CHOOSE i \in kept : \A j \in kept : j <= i
      IN V1ReaderInitGet(file, e) = RdOk(Take(field, n))

\* ------------------------------------------------ ID3v2 tags of all versions
\* one frame as the ID3v2 major versions lay it out on disk, the input that
\* Frame::parse is handed: 2.2 has a 3-byte identifier and a 3-byte size and no
\* flags, 2.3 a 4-byte big-endian size, 2.4 a 4-byte synchsafe size
FrameEncoded(version, id, data) ==
  CASE version = 2 -> id \o Drop(U32ToBe(Len(data)), 1) \o data
    [] version = 4 -> id \o int_to_synchsafe(Len(data)) \o <<0, 0>> \o data
    [] OTHER -> id \o U32ToBe(Len(data)) \o <<0, 0>> \o data
\* the V2 tags the writer and the reader are run on; their titles are "Old"
\* and one of 130 bytes
V2Tags ==
  LET OldTitle == <<79, 108, 100>>
      LongTitle == [i \in 1..(ID3V1_TAG_SIZE + 2) |-> 76]
      tag(version, fr) ==
        HeaderToBytes([version |-> version, revision |-> 0, flags |-> 0, size |-> Len(fr)]) \o fr
      title(version, content) ==
        FrameEncoded(version, get_frame_id_for_version(Std("Title"), version), <<0>> \o content)
      rvad == FrameEncoded(3, RVAD, <<1, 2>>)
  IN { InV2Tag,
       tag(3, rvad \o title(3, OldTitle)),
       tag(3, title(3, OldTitle) \o <<84, 89, 69, 82, 0, 0, 0, 200, 0, 0, 0, 49>>),
       tag(4, title(4, OldTitle) \o Zeros(12)),
       tag(4, title(4, LongTitle)),
       tag(2, title(2, OldTitle)) }

InitV2 ==
  /\ file \in {t \o Audio : t \in V2Tags \cup {<<>>}}
  /\ writer = NoWriter
  /\ pc = "idle"
  /\ pending = <<>>
  /\ before = file
  /\ last = NoCall
  /\ prev = NoCall
  /\ writes = 0
  /\ temp = NoTemp
  /\ op = NoOp
  /\ sync = NoSync
  /\ ape = NoApe
\* a TagWriter with the default strategies and the ID3v2 strategy preferred
NextV2 ==
  \/ NewWriter(DefaultStrategies, "Id3v2")
  \/ \E e \in Entries, v \in Values : SetMetaEntry(e, v)
  \/ V2WriteFrames
  \/ V2WriteFramesFail

SpecV2 == InitV2 /\ [][NextV2]_vars

\* C23: parsing a V2 tag (major version 3 or 4) whose header is valid and whose
\* declared size S lies within the file never fails, and returns exactly the
\* frames that lie before the first frame with an all-zero identifier or with a
\* length running past the S bytes: every such frame whose identifier the frame
\* table lists is returned with its payload, and every returned frame is one of
\* them.
C23_ParseStopsCleanly ==
  (has_id3v2_tag(file) /\ file[4] \in {3, 4}
     /\ HeaderIsValid(HeaderParse(Take(file, HEADER_SIZE)))
     /\ Len(file) >= HEADER_SIZE + HeaderParse(Take(file, HEADER_SIZE)).size)
    => LET tag == read_tag(file)
           disk == V2FramesOf(file)
       IN /\ tag.err = ""
          /\ \A i \in DOMAIN disk :
               is_supported_frame(disk[i].id, VersionFromU8(file[4]))
                 => /\ disk[i].id \in DOMAIN tag.frames
                    /\ \E j \in DOMAIN tag.frames[disk[i].id] :
                         tag.frames[disk[i].id][j].data = disk[i].data
          /\ \A id \in DOMAIN tag.frames : \A j \in DOMAIN tag.frames[id] :
               \E i \in DOMAIN disk : disk[i].id = id /\ disk[i].data = tag.frames[id][j].data

\* C24: every step of a V2 write keeps the major version (2, 3 or 4) of the V2
\* tag the file holds, and a V2 tag that appears in a file without one has
\* major version 3; so after any sequence of writes the header's major version
\* is that of the tag originally in the file, or 3 if there was none.
C24_VersionKept ==
  [][ /\ (has_id3v2_tag(file) /\ file[4] \in {2, 3, 4})
           => (has_id3v2_tag(file') /\ file'[4] = file[4])
      /\ (~has_id3v2_tag(file) /\ has_id3v2_tag(file')) => file'[4] = 3 ]_vars
\* a write has rewritten the header and the frames of a version 4 tag
C24_Witness ==
  /\ Succeeded /\ last.via = "Id3v2"
  /\ has_id3v2_tag(before) /\ before[4] = 4
  /\ file # before /\ file[4] = 4

\* C25: a V2 tag the library has written is the 10-byte header, the frames and
\* ID3V2_PADDING_SIZE (2048) NUL bytes, and the size its header declares is the
\* length of the frames plus the padding.
C25_PaddingWritten ==
  (Succeeded /\ last.via = "Id3v2")
    => LET size == HeaderParse(Take(file, HEADER_SIZE)).size
           frames == FramesOnDisk(SubSeq(file, HEADER_SIZE + 1,
                                         HEADER_SIZE + size - ID3V2_PADDING_SIZE), 0)
       IN /\ size >= ID3V2_PADDING_SIZE
          /\ Len(file) >= HEADER_SIZE + size
          /\ \A i \in (HEADER_SIZE + size - ID3V2_PADDING_SIZE + 1)..(HEADER_SIZE + size) :
               file[i] = 0
          /\ Len(ConcatFrameList(frames)) = size - ID3V2_PADDING_SIZE

\* C26: frames are decoded and encoded in the layout of the tag's major
\* version.  Decoding: when the first frame of a V2 tag of version 2, 3 or 4,
\* read in that version's layout (6-byte header with 3-byte identifier and size
\* for 2, 10-byte header with big-endian size for 3 and synchsafe size for 4),
\* carries the identifier of a key, reading the key returns that frame's text.
\* Encoding: after a successful V2 write the tag holds the written key's frame
\* in the layout of the tag's version.
C26_FrameLayoutByVersion ==
  LET version == file[4]
      size == HeaderParse(Take(file, HEADER_SIZE)).size
      tag_buf == SubSeq(file, HEADER_SIZE + 1, HEADER_SIZE + size)
      hlen == IF version = 2 THEN 6 ELSE FRAME_HEADER_SIZE
      flen == CASE version = 2 -> U32FromBe(<<0>> \o SubSeq(tag_buf, 4, 6))
                [] version = 4 -> synchsafe_to_int(SubSeq(tag_buf, 5, 8))
                [] OTHER -> U32FromBe(SubSeq(tag_buf, 5, 8))
      data == SubSeq(tag_buf, hlen + 1, hlen + flen)
      written == FrameEncoded(version,
                              get_frame_id_for_version(last.entry, VersionFromU8(version)),
                              <<0>> \o last.value)
  IN (has_id3v2_tag(file) /\ version \in {2, 3, 4} /\ Len(file) >= HEADER_SIZE + size)
       => /\ \A e \in Entries :
               LET id == get_frame_id_for_version(e, VersionFromU8(version)) IN
               (id # NoneId /\ Len(tag_buf) >= hlen /\ Take(tag_buf, Len(id)) = id
                  /\ flen >= 1 /\ Len(tag_buf) >= hlen + flen /\ data[1] = 0)
                 => V2ReaderInitGet(file, e) = RdOk(Tail(data))
          /\ (Succeeded /\ last.via = "Id3v2")
               => \E k \in 0..(size - Len(written)) :
                    SubSeq(tag_buf, k + 1, k + Len(written)) = written

\* C27: for each of the eight keys of the identifier table the key mapping
\* yields the listed identifier in both version families: TIT2, TPE1, TALB,
\* TYER, TCON, COMM, TRCK, TCOM for versions 3 and 4 and TIT, TP1, TAL, TYE, TCO,
\* COM, TRK, TCM for version 2, whatever the state of the file.
C27_KeyTable ==
  LET listed ==
        { [key |-> "Title",    v34 |-> <<84, 73, 84, 50>>, v2 |-> <<84, 73, 84>>],
          [key |-> "Artist",   v34 |-> <<84, 80, 69, 49>>, v2 |-> <<84, 80, 49>>],
          [key |-> "Album",    v34 |-> <<84, 65, 76, 66>>, v2 |-> <<84, 65, 76>>],
          [key |-> "Year",     v34 |-> <<84, 89, 69, 82>>, v2 |-> <<84, 89, 69>>],
          [key |-> "Genre",    v34 |-> <<84, 67, 79, 78>>, v2 |-> <<84, 67, 79>>],
          [key |-> "Comment",  v34 |-> <<67, 79, 77, 77>>, v2 |-> <<67, 79, 77>>],
          [key |-> "Track",    v34 |-> <<84, 82, 67, 75>>, v2 |-> <<84, 82, 75>>],
          [key |-> "Composer", v34 |-> <<84, 67, 79, 77>>, v2 |-> <<84, 67, 77>>] }
  IN \A row \in listed :
       /\ get_frame_id_for_version(Std(row.key), VersionFromU8(3)) = row.v34
       /\ get_frame_id_for_version(Std(row.key), VersionFromU8(4)) = row.v34
       /\ get_frame_id_for_version(Std(row.key), VersionFromU8(2)) = row.v2
       /\ (has_id3v2_tag(file) /\ Std(row.key) \in Entries)
            => get_frame_id_for_version(Std(row.key), read_existing_tag(file).version)
                 = IF file[4] = 2 THEN row.v2 ELSE row.v34

\* ------------------------------------------------------ the in-memory ApeTag
\* the files ApeReader::read_tag is run on: four audio bytes and an APE tag at
\* the end whose size fields follow the format (items plus footer); tags with
\* and without header, keys of 254, 255 and 256 bytes, a declared value size
\* of MAX_VALUE_SIZE + 1; and two files without a tag
ApeFiles ==
  LET file_of(item_bytes, item_count, has_header) ==
        LET size == Len(item_bytes) + APE_TAG_FOOTER_SIZE IN
        Take(Audio, 4)
        \o (IF has_header
            THEN ApeHeaderToBuffer(ApeHeaderNew(APE_TAG_VERSION_2_0, size, item_count,
                                   FlagOr(APE_TAG_FLAG_HAS_HEADER, APE_TAG_FLAG_IS_HEADER)))
            ELSE <<>>)
        \o item_bytes
        \o ApeHeaderToBuffer(ApeHeaderNew(APE_TAG_VERSION_2_0, size, item_count,
                             IF has_header THEN APE_TAG_FLAG_HAS_HEADER ELSE APE_ITEM_FLAG_UTF8))
      title == ApeItemBytes(ApeItemNewText(<<84, 73, 84, 76, 69>>, <<70, 111, 111>>))
      year == ApeItemBytes(ApeItemNewText(<<89, 101, 97, 114>>, <<49, 57, 57, 57>>))
      long(k) == ApeItemBytes(ApeItemNewText([i \in 1..k |-> 75], <<86>>))
      oversize == U32ToLe(MAX_VALUE_SIZE + 1) \o APE_ITEM_FLAG_UTF8 \o <<75, 0, 86>>
  IN { <<>>, Take(Audio, 40),
       file_of(title, 1, TRUE), file_of(title \o year, 2, TRUE), file_of(year \o title, 2, FALSE),
       file_of(oversize, 1, TRUE) }
     \cup { file_of(long(k), 1, TRUE) : k \in (MAX_KEY_LENGTH - 1)..(MAX_KEY_LENGTH + 1) }
\* the keys set_text_item and remove_item are called with: "TITLE", "title",
\* "YEAR", "ARTIST"
ApeKeys ==
  { <<84, 73, 84, 76, 69>>, <<116, 105, 116, 108, 101>>, <<89, 69, 65, 82>>,
    <<65, 82, 84, 73, 83, 84>> }

InitApeTag ==
  /\ file \in ApeFiles
  /\ writer = NoWriter
  /\ pc = "idle"
  /\ pending = <<>>
  /\ before = file
  /\ last = NoCall
  /\ prev = NoCall
  /\ writes = 0
  /\ temp = NoTemp
  /\ op = NoOp
  /\ sync = NoSync
  /\ ape = NoApe

\* ApeReader::read_tag(P) in place of the tag made by ApeTag::new
ApeTagRead ==
  /\ ape.stage = "new"
  /\ ape' = [NoApe EXCEPT !.tag = ApeReadTag(file), !.stage = "read"]
  /\ UNCHANGED <<file, writer, pc, pending, before, last, prev, writes, temp, op, sync>>
\* ApeTag::set_text_item(key, value) on the tag
ApeTagSetText(key, value) ==
  /\ ape.tag.err = ""
  /\ ape' = [tag |-> set_text_item(ape.tag, key, value), stage |-> "edited",
             call |-> [name |-> "set_text_item", key |-> key, value |-> value],
             was |-> ape.tag.items]
  /\ UNCHANGED <<file, writer, pc, pending, before, last, prev, writes, temp, op, sync>>
\* ApeTag::remove_item(key) on the tag
ApeTagRemove(key) ==
  /\ ape.tag.err = ""
  /\ ape' = [tag |-> remove_item(ape.tag, key), stage |-> "edited",
             call |-> [name |-> "remove_item", key |-> key, value |-> <<>>],
             was |-> ape.tag.items]
  /\ UNCHANGED <<file, writer, pc, pending, before, last, prev, writes, temp, op, sync>>
NextApeTag ==
  \/ ApeTagRead
  \/ \E key \in ApeKeys, value \in Values : ApeTagSetText(key, value)
  \/ \E key \in ApeKeys : ApeTagRemove(key)

SpecApeTag == InitApeTag /\ [][NextApeTag]_vars

\* C28: after any sequence of set_text_item and remove_item calls on an
\* in-memory APE tag the footer's size is the sum of the serialized item sizes
\* (8 + key length + 1 + value length each) plus 32, the footer's item count is
\* the number of items, and a header, when present, has the footer's size and
\* item count.
C28_SizeAndCount ==
  LET RECURSIVE serialized(_)
      serialized(items) ==
        IF items = <<>> THEN 0
        ELSE 8 + Len(Head(items).key) + 1 + Len(Head(items).value) + serialized(Tail(items))
      tag == ape.tag
  IN ape.stage = "edited"
       => /\ tag.footer.size = serialized(tag.items) + APE_TAG_FOOTER_SIZE
          /\ tag.footer.item_count = Len(tag.items)
          /\ tag.has_header => /\ tag.header.size = tag.footer.size
                               /\ tag.header.item_count = tag.footer.item_count

\* C29: reading a file that ends with an APE tag of one item accepts the item
\* when its key is at most 255 bytes long (exactly 255 included) and ends with
\* a NUL and its declared value size is at most 16 MiB, and fails when the key
\* runs past 255 bytes without a NUL or the declared value size exceeds 16 MiB.
C29_KeyLimit ==
  LET footer == ApeHeaderFromBuffer(SubSeq(file, Len(file) - APE_TAG_FOOTER_SIZE + 1, Len(file)))
      pos == Len(file) - footer.size
      size == U32FromLe(SubSeq(file, pos + 1, pos + 4))
      nuls == {n \in 0..(Len(file) - pos - 9) : file[pos + 8 + n + 1] = 0}
      klen == CHOOSE n \in nuls : \A m \in nuls : n <= m
  IN (ape.stage = "read" /\ Len(file) >= 2 * APE_TAG_FOOTER_SIZE
        /\ ApeHeaderMatches(SubSeq(file, Len(file) - APE_TAG_FOOTER_SIZE + 1, Len(file)))
        /\ footer.item_count = 1 /\ pos >= 0)
       => /\ (klen <= MAX_KEY_LENGTH /\ size <= MAX_VALUE_SIZE)
               => /\ ape.tag.err = ""
                  /\ Len(ape.tag.items) = 1
                  /\ ape.tag.items[1].key = SubSeq(file, pos + 9, pos + 8 + klen)
          /\ (klen > MAX_KEY_LENGTH \/ size > MAX_VALUE_SIZE) => ape.tag.err # ""

\* C30: set_text_item keeps the order of the items.  The items with another
\* key (compared ASCII case-insensitively) are the same, in the same order;
\* when an item with the key existed, the new item stands at its position and
\* the items with that key are at the same positions as before (none is
\* added); otherwise the new item is the last one.
C30_ItemOrderKept ==
  LET key == ape.call.key
      items == ape.tag.items
      was == ape.was
      same(item) == EqIgnoreAsciiCase(item.key, key)
      other(item) == ~EqIgnoreAsciiCase(item.key, key)
      matches(s) == {i \in 1..Len(s) : same(s[i])}
  IN ape.call.name = "set_text_item"
       => /\ SelectSeq(items, other) = SelectSeq(was, other)
          /\ IF matches(was) # {}
             THEN /\ Len(items) = Len(was)
                  /\ matches(items) = matches(was)
                  /\ items[CHOOSE i \in matches(was) : \A j \in matches(was) : i <= j]
                       = ApeItemNewText(key, ape.call.value)
             ELSE /\ Len(items) = Len(was) + 1
                  /\ items[Len(items)] = ApeItemNewText(key, ape.call.value)
\* set_text_item has replaced the first of several items, under a key spelled
\* in another case, and has appended an item to a tag that had some
C30_Witness ==
  /\ ape.call.name = "set_text_item"
  /\ Len(ape.was) >= 2
  /\ EqIgnoreAsciiCase(ape.was[1].key, ape.call.key)
  /\ ape.was[1].key # ape.call.key
  /\ ape.tag.items[1] = ApeItemNewText(ape.call.key, ape.call.value)
  /\ ape.tag.items[1] # ape.was[1]
  /\ Len(ape.tag.items) = Len(ape.was)

====
